---- MODULE Spec2Model ----
(***************************************************************************)
(* Model of the reconciliation backend (src/backend/src/index.js): CSV     *)
(* rows with their __rowId, the helpers toNumber / normalizeDate /         *)
(* stringify, pickField, buildKey and the reconciliation engine reconcile, *)
(* applied to the two parsed datasets of a session (Spec), and the session *)
(* store under the upload, reconcile and export routes (ServerSpec).       *)
(* FieldSpec and KeySpec apply the engine to the mappings and the          *)
(* composite keys a request can carry.  The review table of the frontend   *)
(* (src/unnamed/part_001) is modelled by filteredRows and gridRows, the    *)
(* app and its requests in flight by UiSpec.                               *)
(*                                                                         *)
(* JavaScript values are tagged records.  A string is a sequence of        *)
(* tokens: every character of a CSV cell is one token, and a status or     *)
(* reason literal of the code ("MATCHED", "Amount differs (") is one       *)
(* token.  The key separator "||" is two tokens "|".                       *)
(* Times are counted in days: every instant the engine compares is a UTC   *)
(* midnight, so getTime() / day is a whole number.                         *)
(***************************************************************************)
EXTENDS Integers, Sequences, FiniteSets, TLC

(* Largest number of rows the two uploaded files hold together. *)
MaxRows == 3

(* Largest number of sessions the store holds. *)
MaxSessions == 2

-----------------------------------------------------------------------------
(* JavaScript values *)

Undefined == [t |-> "undefined"]
Null == [t |-> "null"]
NaN == [t |-> "NaN"]
Str(x) == [t |-> "string", s |-> x]
Num(k) == [t |-> "number", n |-> k]

IsNullish(v) == v.t \in {"undefined", "null"}

Digits == {"0", "1", "2", "3", "4", "5", "6", "7", "8", "9"}

DigitVal(c) ==
  CASE c = "0" -> 0 [] c = "1" -> 1 [] c = "2" -> 2 [] c = "3" -> 3
    [] c = "4" -> 4 [] c = "5" -> 5 [] c = "6" -> 6 [] c = "7" -> 7
    [] c = "8" -> 8 [] c = "9" -> 9

DigitChar(d) ==
  CASE d = 0 -> "0" [] d = 1 -> "1" [] d = 2 -> "2" [] d = 3 -> "3"
    [] d = 4 -> "4" [] d = 5 -> "5" [] d = 6 -> "6" [] d = 7 -> "7"
    [] d = 8 -> "8" [] d = 9 -> "9"

WhiteSpace == {" "}

RECURSIVE TrimStart(_)
TrimStart(x) ==
  IF x # <<>> /\ Head(x) \in WhiteSpace THEN TrimStart(Tail(x)) ELSE x

RECURSIVE TrimEnd(_)
TrimEnd(x) ==
  IF x # <<>> /\ x[Len(x)] \in WhiteSpace
  THEN TrimEnd(SubSeq(x, 1, Len(x) - 1))
  ELSE x

(* String.prototype.trim *)
Trim(x) == TrimEnd(TrimStart(x))

LowerChar(c) ==
  CASE c = "A" -> "a" [] c = "B" -> "b" [] c = "X" -> "x" [] OTHER -> c

(* String.prototype.toLowerCase *)
ToLowerCase(x) == [i \in 1..Len(x) |-> LowerChar(x[i])]

(* s.replace(/,/g, "") *)
RemoveCommas(x) == SelectSeq(x, LAMBDA c : c # ",")

RECURSIVE DigitsValue(_)
DigitsValue(x) ==
  IF x = <<>> THEN 0
  ELSE 10 * DigitsValue(SubSeq(x, 1, Len(x) - 1)) + DigitVal(x[Len(x)])

AllDigits(x) == x # <<>> /\ \A i \in 1..Len(x) : x[i] \in Digits

RECURSIVE NatDigits(_)
NatDigits(k) ==
  IF k < 10 THEN <<DigitChar(k)>>
  ELSE Append(NatDigits(k \div 10), DigitChar(k % 10))

(* Number(string): white space is trimmed, the empty string is 0, an      *)
(* optionally signed run of decimal digits is its value, the rest is NaN. *)
UnsignedLiteral(body) == IF AllDigits(body) THEN Num(DigitsValue(body)) ELSE NaN

Negated(k) == IF k.t = "number" THEN Num(0 - k.n) ELSE k

NumericLiteral(s) ==
  IF s = <<>> THEN Num(0)
  ELSE IF Head(s) = "-" THEN Negated(UnsignedLiteral(Tail(s)))
  ELSE IF Head(s) = "+" THEN UnsignedLiteral(Tail(s))
  ELSE UnsignedLiteral(s)

NumberOfText(x) == NumericLiteral(Trim(x))

(* Number(v) *)
ToNumberJS(v) ==
  CASE v.t = "undefined" -> NaN
    [] v.t = "null" -> Num(0)
    [] v.t = "NaN" -> NaN
    [] v.t = "number" -> v
    [] v.t = "string" -> NumberOfText(v.s)

(* String(v) *)
StringJS(v) ==
  CASE v.t = "undefined" -> <<"undefined">>
    [] v.t = "null" -> <<"null">>
    [] v.t = "NaN" -> <<"NaN">>
    [] v.t = "number" ->
         IF v.n < 0 THEN <<"-">> \o NatDigits(0 - v.n) ELSE NatDigits(v.n)
    [] v.t = "string" -> v.s

(* Truthiness of a value: if (v), v || w, !v *)
Truthy(v) ==
  CASE v.t = "string" -> v.s # <<>>
    [] v.t = "number" -> v.n # 0
    [] OTHER -> FALSE

-----------------------------------------------------------------------------
(* Helpers *)

(* Number.isFinite(n) ? n : null *)
FiniteOrNull(n) == IF n.t = "number" THEN n ELSE Null

(* toNumber from the trimmed text s on *)
NumberOfTrimmed(s) ==
  IF s = <<>> THEN Null ELSE FiniteOrNull(NumberOfText(RemoveCommas(s)))

toNumber(v) ==
  IF IsNullish(v) THEN Null ELSE NumberOfTrimmed(Trim(StringJS(v)))

stringify(v) ==
  IF IsNullish(v) THEN <<>> ELSE Trim(StringJS(v))

(* Days between 1970-01-01 and the civil date y-m-d (MakeDay); a day past *)
(* the end of the month rolls over into the next month.                   *)
DayOfYear(m, d) == (153 * (IF m > 2 THEN m - 3 ELSE m + 9) + 2) \div 5 + d - 1

DayOfEra(yoe, doy) == yoe * 365 + yoe \div 4 - yoe \div 100 + doy

DaysOfMarchYear(yy, doy) ==
  (yy \div 400) * 146097 + DayOfEra(yy - (yy \div 400) * 400, doy) - 719468

DaysFromCivil(y, m, d) == DaysOfMarchYear(IF m <= 2 THEN y - 1 ELSE y, DayOfYear(m, d))

(* The civil date <<y, m, d>> of a day number (YearFromTime, MonthFromTime, *)
(* DateFromTime).                                                           *)
YearOfEra(doe) == (doe - doe \div 1460 + doe \div 36524 - doe \div 146096) \div 365

CivilOfMonth(y, mp, doy) ==
  <<IF mp < 10 THEN y ELSE y + 1,
    IF mp < 10 THEN mp + 3 ELSE mp - 9,
    doy - (153 * mp + 2) \div 5 + 1>>

CivilOfDayOfYear(y, doy) == CivilOfMonth(y, (5 * doy + 2) \div 153, doy)

CivilOfYearOfEra(era, doe, yoe) ==
  CivilOfDayOfYear(yoe + era * 400, doe - (365 * yoe + yoe \div 4 - yoe \div 100))

CivilOfDayOfEra(era, doe) == CivilOfYearOfEra(era, doe, YearOfEra(doe))

CivilOfEra(zz, era) == CivilOfDayOfEra(era, zz - era * 146097)

CivilFromDays(z) == CivilOfEra(z + 719468, (z + 719468) \div 146097)

(* The shape YYYY-MM-DD. *)
IsIsoDate(x) ==
  /\ Len(x) = 10
  /\ x[5] = "-" /\ x[8] = "-"
  /\ \A i \in {1, 2, 3, 4, 6, 7, 9, 10} : x[i] \in Digits

(* The UTC midnight of year y, month m, day d: month 1..12, day 1..31. *)
DateValue(y, m, d) ==
  IF m \in 1..12 /\ d \in 1..31 THEN Num(DaysFromCivil(y, m, d)) ELSE NaN

IsoDateParse(x) ==
  IF IsIsoDate(x)
  THEN DateValue(DigitsValue(SubSeq(x, 1, 4)), DigitsValue(SubSeq(x, 6, 7)),
                 DigitsValue(SubSeq(x, 9, 10)))
  ELSE NaN

(* new Date(s).getTime() / day for the date forms of the uploaded files:   *)
(* YYYY-MM-DD and YYYY-MM-DD followed by "T00:00:00Z" are UTC midnights;   *)
(* text that holds no date is an invalid Date.                             *)
DateParse(x) ==
  IsoDateParse(IF Len(x) = 11 /\ x[11] = "T00:00:00Z" THEN SubSeq(x, 1, 10) ELSE x)

Pad(ds, width) == [i \in 1..(width - Len(ds)) |-> "0"] \o ds

IsoDayOfCivil(c) ==
  Pad(NatDigits(c[1]), 4) \o <<"-">> \o Pad(NatDigits(c[2]), 2) \o <<"-">>
    \o Pad(NatDigits(c[3]), 2)

(* d.toISOString().slice(0, 10) of the UTC midnight with day number z *)
IsoDay(z) == IsoDayOfCivil(CivilFromDays(z))

(* !Number.isNaN(d.getTime()) ? d.toISOString().slice(0, 10) : null *)
IsoDayOrNull(d) == IF d.t # "NaN" THEN Str(IsoDay(d.n)) ELSE Null

(* normalizeDate from the trimmed text s on *)
DateOfTrimmed(s) == IF s = <<>> THEN Null ELSE IsoDayOrNull(DateParse(s))

normalizeDate(v) ==
  IF IsNullish(v) THEN Null ELSE DateOfTrimmed(Trim(StringJS(v)))

-----------------------------------------------------------------------------
(* Rows.  A row is a function from column names to values; record[f] of a  *)
(* column the row does not have is undefined.  A column name that is       *)
(* absent, null or empty is the empty name "".                             *)

Get(record, f) == IF f \in DOMAIN record THEN record[f] ELSE Undefined

(* { __rowId: idx + 1, ...r }: the parsed cells are spread after the       *)
(* positional id, so a cell of a column named __rowId replaces it.         *)
WithRowId(idx, r) ==
  [c \in {"__rowId"} \cup DOMAIN r |-> IF c \in DOMAIN r THEN r[c] ELSE Num(idx)]

(* parseCsvBuffer on the header and the data rows Papa.parse returns. *)
parseCsvBuffer(fields, data) ==
  [fields |-> fields,
   rows |-> [idx \in 1..Len(data) |-> WithRowId(idx, data[idx])]]

-----------------------------------------------------------------------------
(* Field Mapper *)

Fallback ==
  [id |-> [a |-> "transaction_id", b |-> "transaction_id"],
   amount |-> [a |-> "amount", b |-> "amount"],
   date |-> [a |-> "date", b |-> "date"],
   description |-> [a |-> "description", b |-> "description"]]

(* x || y on column names *)
OrName(x, y) == IF x # "" THEN x ELSE y

(* A value that is not an object: undefined, null, a string, a number.      *)
(* An object is a function from its property names; a property holding a   *)
(* column name holds "" when the name is missing or empty.                 *)
IsPrimitive(v) == "t" \in DOMAIN v

(* mapping?.[key] *)
Member(mapping, key) ==
  IF IsPrimitive(mapping) \/ key \notin DOMAIN mapping THEN Undefined ELSE mapping[key]

(* m && typeof m === "object" *)
IsObject(m) == ~IsPrimitive(m)

(* The names of the mapping entry, whatever it is. *)
PickGiven(m, fallback) ==
  IF IsObject(m) THEN [a |-> m.a, b |-> m.b] ELSE [a |-> "", b |-> ""]

PickEntry(m, fallback) ==
  IF IsObject(m)
  THEN [a |-> OrName(m.a, fallback.a), b |-> OrName(m.b, fallback.b)]
  ELSE [a |-> fallback.a, b |-> fallback.b]

pickField(mapping, key, fallback) == PickEntry(Member(mapping, key), fallback)

-----------------------------------------------------------------------------
(* Key Builder *)

Separator == <<"|", "|">>

FieldType(rules, f) ==
  IF rules.present /\ f \in DOMAIN rules.fieldTypes THEN rules.fieldTypes[f] ELSE ""

(* x ?? "" followed by String(...) *)
StringOrEmpty(v) == IF IsNullish(v) THEN <<>> ELSE StringJS(v)

(* A key part that takes the cell as it is written. *)
RawPart(type, v) == StringOrEmpty(v)

(* The part of the key a value v of the declared type gives. *)
TypedPart(type, v) ==
  IF type = "number" THEN StringOrEmpty(toNumber(v))
  ELSE IF type = "date" THEN StringOrEmpty(normalizeDate(v))
  ELSE ToLowerCase(stringify(v))

KeyPart(record, f, rules) == TypedPart(FieldType(rules, f), Get(record, f))

RECURSIVE Join(_, _)
Join(parts, sep) ==
  IF parts = <<>> THEN <<>>
  ELSE IF Len(parts) = 1 THEN parts[1]
  ELSE parts[1] \o sep \o Join(Tail(parts), sep)

buildKey(record, fields, rules) ==
  Join([i \in 1..Len(fields) |-> KeyPart(record, fields[i], rules)], Separator)

-----------------------------------------------------------------------------
(* Field Comparators *)

(* x ?? 0 followed by Number(...): the tolerance a rules object carries *)
OrZero(v) == IF IsNullish(v) THEN Num(0) ELSE v

Tolerance(rules, name) ==
  ToNumberJS(OrZero(IF rules.present THEN rules[name] ELSE Undefined))

Abs(k) == IF k < 0 THEN 0 - k ELSE k

(* x <= y on numbers: false when either side is NaN *)
LessEq(x, y) == x.t = "number" /\ y.t = "number" /\ x.n <= y.n

(* The amount comparator from the parsed operands an, bn on. *)
AmountVerdict(an, bn, amountTol) ==
  IF an.t = "null" \/ bn.t = "null"
  THEN [ok |-> FALSE, reason |-> "AMOUNT_MISSING"]
  ELSE [ok |-> LessEq(Num(Abs(an.n - bn.n)), amountTol), reason |-> ""]

(* A comparator that asks for a difference below the tolerance. *)
compareAmountsStrict(a, b, amountTol) ==
  AmountVerdict(toNumber(a), toNumber(b),
                IF amountTol.t = "number" THEN Num(amountTol.n - 1) ELSE amountTol)

compareAmounts(a, b, amountTol) == AmountVerdict(toNumber(a), toNumber(b), amountTol)

(* dd <= dateTolDays for the UTC midnights adt, bdt *)
DayVerdict(adt, bdt, dateTolDays) ==
  [ok |-> LessEq(Num(Abs(adt.n - bdt.n)), dateTolDays), reason |-> ""]

(* The date comparator from the normalized operands ad, bd on. *)
DateVerdict(ad, bd, dateTolDays) ==
  IF ~Truthy(ad) \/ ~Truthy(bd)
  THEN [ok |-> FALSE, reason |-> "DATE_MISSING"]
  ELSE DayVerdict(DateParse(ad.s \o <<"T00:00:00Z">>), DateParse(bd.s \o <<"T00:00:00Z">>),
                  dateTolDays)

(* A comparator that asks for a day difference below the tolerance. *)
compareDatesStrict(a, b, dateTolDays) ==
  DateVerdict(normalizeDate(a), normalizeDate(b),
              IF dateTolDays.t = "number" THEN Num(dateTolDays.n - 1) ELSE dateTolDays)

compareDates(a, b, dateTolDays) == DateVerdict(normalizeDate(a), normalizeDate(b), dateTolDays)

-----------------------------------------------------------------------------
(* Reconciliation Engine.  A result refers to its rows by their position   *)
(* in the dataset (the engine stores the row objects themselves); NoRow is *)
(* the null reference.                                                     *)

NoRow == 0

(* The key a B row is indexed under, and whether the row is skipped. *)
bKeyOf(r, mode, idField, rules) ==
  IF mode = "auto"
  THEN IF idField.b # "" THEN stringify(Get(r, idField.b)) ELSE <<>>
  ELSE buildKey(r, IF rules.present THEN rules.compositeKeysB ELSE <<>>, rules)

(* if (!id) continue; if (!bIndex.has(key)) bIndex.set(key, r) *)
IndexedRow(bIndex, mode, key, i) ==
  IF (mode = "auto" /\ key = <<>>) \/ key \in DOMAIN bIndex
  THEN bIndex
  ELSE [k \in DOMAIN bIndex \cup {key} |-> IF k = key THEN i ELSE bIndex[k]]

(* Build lookup for B: the first row of every key, in B's row order; auto  *)
(* mode leaves out the rows with an empty id.                              *)
RECURSIVE bIndexFrom(_, _, _, _, _, _)
bIndexFrom(bRows, mode, idField, rules, i, bIndex) ==
  IF i > Len(bRows) THEN bIndex
  ELSE bIndexFrom(bRows, mode, idField, rules, i + 1,
         IndexedRow(bIndex, mode, bKeyOf(bRows[i], mode, idField, rules), i))

EmptyIndex == [k \in {} |-> NoRow]

(* The key an A row is probed with. *)
aKeyOf(a, mode, idField, rules) ==
  IF mode = "auto"
  THEN stringify(Str(StringOrEmpty(Get(a, idField.a))))
  ELSE buildKey(a, IF rules.present THEN rules.compositeKeysA ELSE <<>>, rules)

(* if (x !== y) reasons.push(`... differs (${x} vs ${y})`) *)
Differs(what, x, y) ==
  IF x # y THEN << <<what>> \o StringJS(x) \o <<" vs ">> \o StringJS(y) \o <<")">> >> ELSE <<>>

(* reasons.join(" | ") of the inline reason builder: it reads the columns  *)
(* named amount and date of the two rows.                                  *)
MismatchReason(a, b) ==
  Join(Differs("Amount differs (", Get(a, "amount"), Get(b, "amount"))
         \o Differs("Date differs (", Get(a, "date"), Get(b, "date")),
       <<" | ">>)

(* A mismatches list that leaves out the verdicts on a missing operand. *)
MismatchesOfDifferences(amountCmp, dateCmp) ==
  (IF ~amountCmp.ok /\ amountCmp.reason = "" THEN <<"AMOUNT_MISMATCH">> ELSE <<>>)
  \o (IF ~dateCmp.ok /\ dateCmp.reason = "" THEN <<"DATE_MISMATCH">> ELSE <<>>)

(* The mismatches list of the two comparator verdicts. *)
Mismatches(amountCmp, dateCmp) ==
  (IF ~amountCmp.ok
   THEN <<IF amountCmp.reason # "" THEN amountCmp.reason ELSE "AMOUNT_MISMATCH">>
   ELSE <<>>)
  \o (IF ~dateCmp.ok
      THEN <<IF dateCmp.reason # "" THEN dateCmp.reason ELSE "DATE_MISMATCH">>
      ELSE <<>>)

(* MATCHED or the mismatch branch.  counted is the statusCounts counter    *)
(* that is incremented, result the record that is pushed.                  *)
Classified(a, b, ai, bi, key, mismatches) ==
  IF Len(mismatches) = 0
  THEN [counted |-> "MATCHED",
        result |-> [status |-> "MATCHED", key |-> Str(key), reason |-> <<"MATCHED">>,
                    a |-> ai, b |-> bi]]
  ELSE [counted |-> "MISMATCH",
        result |-> [status |-> "mismatch", key |-> Str(key),
                    reason |-> MismatchReason(a, b), a |-> ai, b |-> bi]]

(* The classification of the joined pair: validate fields, then classify. *)
ClassifyPair(a, b, ai, bi, key, amountField, dateField, amountTol, dateTolDays) ==
  Classified(a, b, ai, bi, key,
    Mismatches(compareAmounts(Get(a, amountField.a), Get(b, amountField.b), amountTol),
               compareDates(Get(a, dateField.a), Get(b, dateField.b), dateTolDays)))

(* A bUsed that is keyed by the id of the row instead of its __rowId. *)
UsedByKeyMates(bRows, bi) ==
  {bRows[j]["__rowId"] :
     j \in {j \in 1..Len(bRows) :
              Get(bRows[j], "transaction_id") = Get(bRows[bi], "transaction_id")}}

(* bUsed.add(b.__rowId): what joining the B row at position bi marks used *)
UsedBy(bRows, bi) == {bRows[bi]["__rowId"]}

(* The A row at position ai is missing in B. *)
MissingInB(ai, key) ==
  [counted |-> "MISSING_IN_B", used |-> {},
   result |-> [status |-> "MISSING_IN_B", key |-> Str(key),
               reason |-> <<"MISSING_IN_B">>, a |-> ai, b |-> NoRow]]

(* The A row at position ai is joined to the B row at position bi. *)
Joined(bRows, bi, c) ==
  [counted |-> c.counted, used |-> UsedBy(bRows, bi), result |-> c.result]

(* One turn of the loop over aRows, from the key of the row on. *)
ProbeKey(aRows, bRows, ai, bIndex, key, amountField, dateField, rules) ==
  IF key = <<>> \/ key \notin DOMAIN bIndex
  THEN MissingInB(ai, key)
  ELSE Joined(bRows, bIndex[key],
         ClassifyPair(aRows[ai], bRows[bIndex[key]], ai, bIndex[key], key,
                      amountField, dateField,
                      Tolerance(rules, "amountTolerance"),
                      Tolerance(rules, "dateToleranceDays")))

(* One turn of the loop over aRows. *)
ProbeRow(aRows, bRows, ai, bIndex, mode, idField, amountField, dateField, rules) ==
  ProbeKey(aRows, bRows, ai, bIndex, aKeyOf(aRows[ai], mode, idField, rules),
           amountField, dateField, rules)

Increment(statusCounts, status) ==
  [statusCounts EXCEPT ![status] = @ + 1]

(* results.push, bUsed.add and statusCounts++ of one turn *)
Accumulate(acc, p) ==
  [results |-> Append(acc.results, p.result),
   bUsed |-> acc.bUsed \cup p.used,
   statusCounts |-> Increment(acc.statusCounts, p.counted)]

(* The loop over aRows, from row i on. *)
RECURSIVE ProbeFrom(_, _, _, _, _, _, _, _, _, _)
ProbeFrom(aRows, bRows, i, bIndex, mode, idField, amountField, dateField, rules, acc) ==
  IF i > Len(aRows) THEN acc
  ELSE ProbeFrom(aRows, bRows, i + 1, bIndex, mode, idField, amountField, dateField, rules,
         Accumulate(acc, ProbeRow(aRows, bRows, i, bIndex, mode, idField, amountField,
                                  dateField, rules)))

(* The result pushed for the unused B row at position i. *)
MissingInA(bRows, i, mode, idField) ==
  [status |-> "MISSING_IN_A",
   key |-> IF mode = "auto" THEN Str(stringify(Str(StringOrEmpty(Get(bRows[i], idField.b)))))
           ELSE Null,
   reason |-> <<"MISSING_IN_A">>, a |-> NoRow, b |-> i]

(* Missing in A: any B not used. *)
RECURSIVE SweepFrom(_, _, _, _, _)
SweepFrom(bRows, i, mode, idField, acc) ==
  IF i > Len(bRows) THEN acc
  ELSE SweepFrom(bRows, i + 1, mode, idField,
         IF bRows[i]["__rowId"] \notin acc.bUsed
         THEN [results |-> Append(acc.results, MissingInA(bRows, i, mode, idField)),
               bUsed |-> acc.bUsed,
               statusCounts |-> Increment(acc.statusCounts, "MISSING_IN_A")]
         ELSE acc)

NoResults ==
  [results |-> <<>>, bUsed |-> {},
   statusCounts |-> [MATCHED |-> 0, MISMATCH |-> 0, MISSING_IN_B |-> 0, MISSING_IN_A |-> 0]]

(* return { summary: { ...statusCounts, total }, results } *)
Output(acc) ==
  [summary |-> [MATCHED |-> acc.statusCounts.MATCHED,
                MISMATCH |-> acc.statusCounts.MISMATCH,
                MISSING_IN_B |-> acc.statusCounts.MISSING_IN_B,
                MISSING_IN_A |-> acc.statusCounts.MISSING_IN_A,
                total |-> Len(acc.results)],
   results |-> acc.results]

(* reconcile with the resolved fields. *)
ReconcileFields(aRows, bRows, mode, rules, idField, amountField, dateField) ==
  Output(SweepFrom(bRows, 1, mode, idField,
           ProbeFrom(aRows, bRows, 1, bIndexFrom(bRows, mode, idField, rules, 1, EmptyIndex),
                     mode, idField, amountField, dateField, rules, NoResults)))

reconcile(aRows, bRows, mapping, mode, rules) ==
  ReconcileFields(aRows, bRows, mode, rules,
                  pickField(mapping, "id", Fallback.id),
                  pickField(mapping, "amount", Fallback.amount),
                  pickField(mapping, "date", Fallback.date))

-----------------------------------------------------------------------------
(* The uploaded files and the request *)

Day5 == <<"2", "0", "2", "4", "-", "0", "1", "-", "0", "5">>
Day6 == <<"2", "0", "2", "4", "-", "0", "1", "-", "0", "6">>

(* The cells of a data row: id, amount, date. *)
Cells ==
  {[id |-> <<"7">>, amount |-> <<"1", "0", "0">>, date |-> Day5],
   [id |-> <<" ", "7">>, amount |-> <<"1", "0", "4">>, date |-> Day6],
   [id |-> <<"8">>, amount |-> <<"1", "0", "4">>, date |-> Day5],
   [id |-> <<>>, amount |-> <<"1", "0", "0">>, date |-> Day5],
   [id |-> <<"7">>, amount |-> <<"x">>, date |-> Day5],
   [id |-> <<"7">>, amount |-> <<"1", ",", "0", "0">>, date |-> <<>>]}

(* The data rows Papa.parse returns for a file whose id column is idCol    *)
(* and whose amount column is amountCol.                                   *)
CsvRows(idCol, amountCol) ==
  {[c \in {idCol, amountCol, "date"} |->
      IF c = idCol THEN Str(cells.id)
      ELSE IF c = amountCol THEN Str(cells.amount) ELSE Str(cells.date)] :
   cells \in Cells}

NoMapping == [k \in {} |-> [a |-> "", b |-> ""]]

IdMapping(name) == [id |-> [a |-> name, b |-> name]]

AmountMapping(name) == [amount |-> [a |-> name, b |-> name]]

(* The header of the two files and the mapping of the request: the id      *)
(* column is transaction_id (the default), or it is named __rowId and      *)
(* mapped, or the mapping names the __rowId of the parsed rows as the id,  *)
(* or the amount column is named amt and mapped.                           *)
Schemas ==
  {[idCol |-> "transaction_id", amountCol |-> "amount", mapping |-> NoMapping],
   [idCol |-> "__rowId", amountCol |-> "amount", mapping |-> IdMapping("__rowId")],
   [idCol |-> "transaction_id", amountCol |-> "amount", mapping |-> IdMapping("__rowId")],
   [idCol |-> "transaction_id", amountCol |-> "amt", mapping |-> AmountMapping("amt")]}

NoRules ==
  [present |-> FALSE, amountTolerance |-> Undefined, dateToleranceDays |-> Undefined,
   compositeKeysA |-> <<>>, compositeKeysB |-> <<>>, fieldTypes |-> [k \in {} |-> ""]]

(* The rules the frontend sends: the key is the amount and the date. *)
AmountDateRules(amountTolerance, dateToleranceDays) ==
  [present |-> TRUE,
   amountTolerance |-> amountTolerance, dateToleranceDays |-> dateToleranceDays,
   compositeKeysA |-> <<"amount", "date">>, compositeKeysB |-> <<"amount", "date">>,
   fieldTypes |-> [amount |-> "number", date |-> "date", description |-> "string"]]

(* Rules whose key is the one column idCol, compared as a string. *)
IdRules(idCol, amountTolerance, dateToleranceDays) ==
  [present |-> TRUE,
   amountTolerance |-> amountTolerance, dateToleranceDays |-> dateToleranceDays,
   compositeKeysA |-> <<idCol>>, compositeKeysB |-> <<idCol>>,
   fieldTypes |-> [k \in {} |-> ""]]

(* The mode and the rules of a request on files whose id column is idCol. *)
ModeRules(idCol) ==
  {[mode |-> "auto", rules |-> NoRules],
   [mode |-> "auto", rules |-> IdRules(idCol, Num(5), Num(1))],
   [mode |-> "auto", rules |-> IdRules(idCol, Str(<<"x">>), Num(0))],
   [mode |-> "custom", rules |-> NoRules],
   [mode |-> "custom", rules |-> IdRules(idCol, Str(<<"x">>), Num(0))],
   [mode |-> "custom", rules |-> IdRules(idCol, Undefined, Num(0))],
   [mode |-> "custom", rules |-> AmountDateRules(Num(0), Num(0))],
   [mode |-> "custom", rules |-> AmountDateRules(Num(5), Num(0))]}
  \cup {[mode |-> "custom", rules |-> IdRules(idCol, Num(at), Num(dt))] :
          at \in {0, 5}, dt \in {0, 1}}

-----------------------------------------------------------------------------
(* Column profile.  The header names of the modelled files are lower-case, *)
(* so lowerFields is fields.  A name that is not detected (null) is "".    *)

IdCandidates ==
  <<"transaction_id", "transactionid", "txn_id", "txnid", "id", "reference", "ref",
    "trans_id">>
AmountCandidates == <<"amount", "amt", "total", "total_amount", "value">>
DateCandidates ==
  <<"date", "txn_date", "transaction_date", "posted_date", "booking_date">>

(* The first candidate, from the i-th on, that is a field of the file. *)
RECURSIVE Detected(_, _, _)
Detected(candidates, fields, i) ==
  IF i > Len(candidates) THEN ""
  ELSE IF \E n \in 1..Len(fields) : fields[n] = candidates[i] THEN candidates[i]
  ELSE Detected(candidates, fields, i + 1)

(* The rows whose non-empty id was seen in an earlier row. *)
Duplicates(rows, detectedId) ==
  IF detectedId = "" THEN 0
  ELSE Cardinality({i \in 1..Len(rows) :
         /\ stringify(Get(rows[i], detectedId)) # <<>>
         /\ \E h \in 1..(i - 1) :
              stringify(Get(rows[h], detectedId)) = stringify(Get(rows[i], detectedId))})

NumberOrNothing(n) == IF n = Null THEN 0 ELSE n.n

RECURSIVE SumFrom(_, _, _)
SumFrom(rows, column, i) ==
  IF i > Len(rows) THEN 0
  ELSE NumberOrNothing(toNumber(Get(rows[i], column))) + SumFrom(rows, column, i + 1)

(* amountSum = count ? sum : null *)
AmountSum(rows, detectedAmount) ==
  IF detectedAmount = ""
       \/ \A i \in 1..Len(rows) : toNumber(Get(rows[i], detectedAmount)) = Null
  THEN Null
  ELSE Num(SumFrom(rows, detectedAmount, 1))

(* The first and the last of the sorted canonical dates. *)
RangeOf(dates) ==
  IF dates = {} THEN Null
  ELSE [min |-> CHOOSE d \in dates : \A e \in dates : DateParse(d.s).n <= DateParse(e.s).n,
        max |-> CHOOSE d \in dates : \A e \in dates : DateParse(e.s).n <= DateParse(d.s).n]

DateRange(rows, detectedDate) ==
  IF detectedDate = "" THEN Null
  ELSE RangeOf({normalizeDate(Get(rows[i], detectedDate)) : i \in 1..Len(rows)} \ {Null})

Profiled(rows, fields, detectedId, detectedAmount, detectedDate) ==
  [rowCount |-> Len(rows),
   fields |-> fields,
   detected |-> [id |-> detectedId, amount |-> detectedAmount, date |-> detectedDate],
   duplicates |-> Duplicates(rows, detectedId),
   amountSum |-> AmountSum(rows, detectedAmount),
   dateRange |-> DateRange(rows, detectedDate),
   sampleRows |-> SubSeq(rows, 1, IF Len(rows) < 5 THEN Len(rows) ELSE 5)]

profile(rows, fields) ==
  Profiled(rows, fields, Detected(IdCandidates, fields, 1),
           Detected(AmountCandidates, fields, 1), Detected(DateCandidates, fields, 1))

-----------------------------------------------------------------------------
(* Routes.  Node runs every handler to its end before the next one starts, *)
(* so a request is one step.                                               *)

(* The ids nanoid(12) hands out. *)
NanoIds == {"V1StGXR8_Z5" \o DigitChar(n) : n \in 1..MaxSessions}

(* const sessions = new Map() *)
NoSessions == [id \in {} |-> Undefined]

Response(status, body) == [status |-> status, body |-> body]

ErrorBody(message) == [error |-> message]

(* A store in which a write reaches every entry. *)
SetEverySession(store, sessionId, s) ==
  [id \in DOMAIN store \cup {sessionId} |-> s]

(* sessions.set(sessionId, s) *)
SetSession(store, sessionId, s) ==
  [id \in DOMAIN store \cup {sessionId} |-> IF id = sessionId THEN s ELSE store[id]]

(* An uploaded file: what Papa.parse makes of its buffer. *)
CsvFile(data) ==
  [errors |-> FALSE, fields |-> <<"transaction_id", "amount", "date">>, data |-> data]

CsvRow(id, amount, date) ==
  [transaction_id |-> Str(id), amount |-> Str(amount), date |-> Str(date)]

FileOne == CsvFile(<<CsvRow(<<"7">>, <<"1", "0", "0">>, Day5)>>)
FileTwo == CsvFile(<<CsvRow(<<" ", "7">>, <<"1", "0", "4">>, Day6)>>)
EmptyFile == CsvFile(<<>>)
BrokenFile == [errors |-> TRUE, fields |-> <<>>, data |-> <<>>]

(* The multipart bodies of the upload requests. *)
Uploads ==
  {[fileA |-> FileTwo, fileB |-> FileOne],
   [fileA |-> FileTwo, fileB |-> EmptyFile],
   [fileA |-> FileOne, fileB |-> Undefined],
   [fileA |-> BrokenFile, fileB |-> FileOne]}

BothUploaded(files) == files.fileA # Undefined /\ files.fileB # Undefined

(* if (result.errors?.length) throw new Error(msg) *)
ParseThrows(files) == files.fileA.errors \/ files.fileB.errors

(* Date.now(): the clock is not modelled, no handler reads createdAt. *)
Now == 0

(* The session entry of two parsed files. *)
NewSession(parsedA, parsedB) ==
  [createdAt |-> Now,
   a |-> parsedA,
   b |-> parsedB,
   meta |-> [a |-> profile(parsedA.rows, parsedA.fields),
             b |-> profile(parsedB.rows, parsedB.fields)],
   lastRecon |-> Undefined]

(* Rules of a request whose compositeKeysB is a number: for (const f of    *)
(* fields) throws on it.  The field notIterable names the key lists that   *)
(* are no arrays.                                                          *)
NotIterableRules ==
  [present |-> TRUE,
   amountTolerance |-> Num(5), dateToleranceDays |-> Num(1),
   compositeKeysA |-> <<"amount", "date">>, compositeKeysB |-> <<>>,
   fieldTypes |-> [amount |-> "number", date |-> "date", description |-> "string"],
   notIterable |-> {"compositeKeysB"}]

NotIterable(rules, keys) ==
  rules.present /\ "notIterable" \in DOMAIN rules /\ keys \in rules.notIterable

(* reconcile throws: buildKey iterates a key list that is no array, for    *)
(* the first row of B, or else for the first row of A.                     *)
reconcileThrows(aRows, bRows, mode, rules) ==
  /\ mode = "custom"
  /\ \/ NotIterable(rules, "compositeKeysB") /\ Len(bRows) > 0
     \/ NotIterable(rules, "compositeKeysA") /\ Len(aRows) > 0

(* The JSON bodies of the reconcile requests: well-formed ones for every   *)
(* issued id and for an id that was never issued, and malformed ones.      *)
Bodies ==
  {[sessionId |-> Str(id), mode |-> Str(mode), mapping |-> NoMapping, rules |-> rules] :
     id \in NanoIds, mode \in {"auto", "custom"}, rules \in {NoRules, NotIterableRules}}
  \cup {[sessionId |-> sessionId, mode |-> Str("auto"), mapping |-> NoMapping,
         rules |-> NoRules] :
           sessionId \in {Undefined, Str("ab"), Str("unknown-id-0")}}
  \cup {[sessionId |-> Str("V1StGXR8_Z5" \o DigitChar(1)), mode |-> Str("fuzzy"),
         mapping |-> NoMapping, rules |-> NoRules]}

(* schema.safeParse(req.body).success *)
ValidBody(body) ==
  /\ body.sessionId.t = "string" /\ Len(body.sessionId.s) >= 3
  /\ body.mode.t = "string" /\ body.mode.s \in {"auto", "custom"}

(* A session entry that keeps the first result it was given. *)
KeepFirstRecon(s, result) ==
  IF s.lastRecon = Undefined THEN [s EXCEPT !.lastRecon = result] ELSE s

(* A session entry whose rows are consumed by the run. *)
StoreLastReconAndClear(s, result) ==
  [s EXCEPT !.lastRecon = result, !.a = [fields |-> s.a.fields, rows |-> <<>>]]

(* s.lastRecon = recon *)
StoreLastRecon(s, result) == [s EXCEPT !.lastRecon = result]

(* keep last result for export; res.json({ meta: s.meta, ...recon }) *)
Reconciled(store, sessionId, s, result) ==
  [sessions |-> SetSession(store, sessionId, StoreLastRecon(s, result)),
   response |-> Response(200, [meta |-> s.meta, summary |-> result.summary,
                               results |-> result.results])]

(* A rejection that forgets the stored results. *)
RejectedAndForgotten(store, status, message) ==
  [sessions |-> [id \in DOMAIN store |-> [store[id] EXCEPT !.lastRecon = Undefined]],
   response |-> Response(status, ErrorBody(message))]

(* return res.status(status).json({ error: message }) *)
Rejected(store, status, message) ==
  [sessions |-> store, response |-> Response(status, ErrorBody(message))]

(* try { reconcile(...) } catch (e) { res.status(400) } *)
RunReconcile(store, sessionId, s, body) ==
  IF reconcileThrows(s.a.rows, s.b.rows, body.mode.s, body.rules)
  THEN Rejected(store, 400, "fields is not iterable")
  ELSE Reconciled(store, sessionId, s,
         reconcile(s.a.rows, s.b.rows, body.mapping, body.mode.s, body.rules))

(* The handler of POST /api/reconcile. *)
HandleReconcile(store, body) ==
  IF ~ValidBody(body)
  THEN Rejected(store, 400, "Invalid request body")
  ELSE IF body.sessionId.s \notin DOMAIN store
  THEN Rejected(store, 404, "Session not found. Upload files again.")
  ELSE RunReconcile(store, body.sessionId.s, store[body.sessionId.s], body)

(* The query strings of the export requests. *)
Filters == {Undefined, Str("mismatch")}

(* String(req.query.filter || "ALL") *)
FilterOf(query) == IF query.t = "string" /\ query.s # "" THEN query.s ELSE "ALL"

OrEmpty(v) == IF IsNullish(v) THEN Str(<<>>) ELSE v

(* r.a ? (r.a[column] ?? "") : "" *)
CellOf(rows, n, column) ==
  IF n = NoRow THEN Str(<<>>) ELSE OrEmpty(Get(rows[n], column))

(* Flatten for CSV *)
Flat(s, r) ==
  [status |-> Str(<<r.status>>),
   reason |-> Str(r.reason),
   key |-> r.key,
   a_rowId |-> CellOf(s.a.rows, r.a, "__rowId"),
   b_rowId |-> CellOf(s.b.rows, r.b, "__rowId"),
   a_transaction_id |-> CellOf(s.a.rows, r.a, "transaction_id"),
   b_transaction_id |-> CellOf(s.b.rows, r.b, "transaction_id"),
   a_date |-> CellOf(s.a.rows, r.a, "date"),
   b_date |-> CellOf(s.b.rows, r.b, "date"),
   a_amount |-> CellOf(s.a.rows, r.a, "amount"),
   b_amount |-> CellOf(s.b.rows, r.b, "amount")]

(* A filter that keeps every record. *)
KeepFrom(results, filter, i) == SubSeq(results, i, Len(results))

(* results.filter(r => filter === "ALL" ? true : r.status === filter) *)
RECURSIVE FilterFrom(_, _, _)
FilterFrom(results, filter, i) ==
  IF i > Len(results) THEN <<>>
  ELSE (IF filter = "ALL" \/ results[i].status = filter THEN <<results[i]>> ELSE <<>>)
       \o FilterFrom(results, filter, i + 1)

ExportColumns ==
  <<"status", "reason", "key", "a_rowId", "b_rowId", "a_transaction_id",
    "b_transaction_id", "a_date", "b_date", "a_amount", "b_amount">>

(* Papa.unparse of an array of objects: the header is the keys of the      *)
(* first object, a cell is the text of the value, empty for null.          *)
unparse(flat) ==
  [fields |-> IF Len(flat) = 0 THEN <<>> ELSE ExportColumns,
   data |-> [n \in 1..Len(flat) |->
               [column \in DOMAIN flat[n] |-> StringOrEmpty(flat[n][column])]]]

Exported(s, sessionId, filter, rows) ==
  Response(200,
    [filename |-> "recon_" \o sessionId \o "_" \o filter \o ".csv",
     csv |-> unparse([n \in 1..Len(rows) |-> Flat(s, rows[n])])])

(* The handler of GET /api/export/:sessionId. *)
HandleExport(store, sessionId, query) ==
  IF sessionId \notin DOMAIN store \/ store[sessionId].lastRecon = Undefined
  THEN Response(404, ErrorBody("Nothing to export. Run reconciliation first."))
  ELSE Exported(store[sessionId], sessionId, FilterOf(query),
                FilterFrom(store[sessionId].lastRecon.results, FilterOf(query), 1))

-----------------------------------------------------------------------------
(* Review table (frontend).  recon is the response of POST /api/reconcile; *)
(* its records refer to the rows by position, so the table operators take  *)
(* the rows as well.                                                       *)

Chips == {"ALL", "MATCHED", "MISMATCH", "MISSING_IN_A", "MISSING_IN_B"}

(* exportUrl(sessionId, filter === "ALL" ? "ALL" : filter): the query *)
ExportQuery(filter) == Str(filter)

(* r.status?.toUpperCase().replace(/\s+/g, "_") *)
NormalizedStatus(status) == IF status = "mismatch" THEN "MISMATCH" ELSE status

(* rows.map(r => ({ ...r, _normalizedStatus })) *)
WithNormalizedStatus(r) ==
  [status |-> r.status, key |-> r.key, reason |-> r.reason, a |-> r.a, b |-> r.b,
   _normalizedStatus |-> NormalizedStatus(r.status)]

(* String.prototype.includes *)
Includes(text, q) ==
  \E i \in 0..(Len(text) - Len(q)) : SubSeq(text, i + 1, i + Len(q)) = q

(* The columns of the modelled files, in the order of their headers. *)
ColumnOrder ==
  <<"__rowId", "transaction_id", "ref", "memo", "amount", "amt", "date", "posted">>

JsonValue(v) ==
  IF v.t = "string" THEN <<"\"">> \o v.s \o <<"\"">> ELSE StringJS(v)

RECURSIVE JsonMembers(_, _, _)
JsonMembers(row, i, first) ==
  IF i > Len(ColumnOrder) THEN <<>>
  ELSE IF ColumnOrder[i] \notin DOMAIN row THEN JsonMembers(row, i + 1, first)
  ELSE (IF first THEN <<>> ELSE <<",">>)
         \o <<"\"", ColumnOrder[i], "\"", ":">> \o JsonValue(row[ColumnOrder[i]])
         \o JsonMembers(row, i + 1, FALSE)

(* JSON.stringify(r.a || {}) *)
JsonOfRow(rows, n) ==
  <<"{">> \o (IF n = NoRow THEN <<>> ELSE JsonMembers(rows[n], 1, TRUE)) \o <<"}">>

(* The search predicate of filteredRows on the lower-case query q. *)
SearchHit(r, aRows, bRows, q) ==
  \/ r.key.t = "string" /\ Includes(ToLowerCase(r.key.s), q)
  \/ Includes(ToLowerCase(r.reason), q)
  \/ Includes(ToLowerCase(JsonOfRow(aRows, r.a)), q)
  \/ Includes(ToLowerCase(JsonOfRow(bRows, r.b)), q)

StatusFiltered(rows, filter) ==
  IF filter # "ALL"
  THEN SelectSeq(rows, LAMBDA r : r._normalizedStatus = filter)
  ELSE rows

Searched(rows, aRows, bRows, search) ==
  IF Trim(search) # <<>>
  THEN SelectSeq(rows, LAMBDA r : SearchHit(r, aRows, bRows, ToLowerCase(search)))
  ELSE rows

(* Apply status filter + search against A/B content and reasons. *)
filteredRows(recon, aRows, bRows, filter, search) ==
  IF recon = Undefined THEN <<>>
  ELSE Searched(StatusFiltered([n \in 1..Len(recon.results) |->
                                  WithNormalizedStatus(recon.results[n])], filter),
                aRows, bRows, search)

(* id: r.key || index *)
GridId(r, index) == IF Truthy(r.key) THEN r.key ELSE Num(index)

(* filteredRows.map((r, index) => ({ id: r.key || index, ... })) *)
gridRows(rows) ==
  [n \in 1..Len(rows) |->
     [id |-> GridId(rows[n], n - 1), status |-> rows[n].status,
      reason |-> rows[n].reason, key |-> rows[n].key, a |-> rows[n].a, b |-> rows[n].b]]

-----------------------------------------------------------------------------
(* The engine applied to the rows of two uploaded files *)

VARIABLES aRows, bRows, mapping, mode, rules, recon

(* The server: the session store, the request handled last and its         *)
(* response.  uploaded and answered are history: the files every session   *)
(* was created from, the result of the last reconcile request that was     *)
(* answered with 200 for it, and whether such an answer ever came after a  *)
(* different one for the same session.                                     *)
VARIABLES sessions, request, response, uploaded, answered

(* The frontend: the state of the app (the app context, the picked files,  *)
(* the route, the loading flag) and the requests that are not settled yet. *)
VARIABLES ui, net

engineVars == <<aRows, bRows, mapping, mode, rules, recon>>
serverVars == <<sessions, request, response, uploaded, answered>>
uiVars == <<ui, net>>

vars == <<aRows, bRows, mapping, mode, rules, recon,
          sessions, request, response, uploaded, answered, ui, net>>

(* The app as it is mounted: useState(null) for the session, the profile   *)
(* and the result, strategy auto, not loading, not logged in.              *)
UiIdle ==
  /\ ui = [path |-> "/auth", isAuthed |-> FALSE, fileA |-> Null, fileB |-> Null,
           sessionId |-> Null, meta |-> Null, recon |-> Null,
           strategy |-> "auto", loading |-> FALSE]
  /\ net = [pending |-> {}, issued |-> {}]

(* No request has been handled. *)
ServerIdle ==
  /\ sessions = NoSessions
  /\ request = Undefined
  /\ response = Undefined
  /\ uploaded = NoSessions
  /\ answered = [last |-> [id \in NanoIds |-> Undefined], replaced |-> FALSE]

(* Two files that hold at most MaxRows data rows together are parsed; the  *)
(* request is chosen; reconcile has not run.                               *)
Init ==
  \E schema \in Schemas, na \in 0..MaxRows :
    \E nb \in 0..(MaxRows - na), mr \in ModeRules(schema.idCol) :
      \E dataA \in [1..na -> CsvRows(schema.idCol, schema.amountCol)],
         dataB \in [1..nb -> CsvRows(schema.idCol, schema.amountCol)] :
        /\ aRows = parseCsvBuffer(<<schema.idCol, schema.amountCol, "date">>, dataA).rows
        /\ bRows = parseCsvBuffer(<<schema.idCol, schema.amountCol, "date">>, dataB).rows
        /\ mapping = schema.mapping
        /\ mode = mr.mode
        /\ rules = mr.rules
        /\ recon = Undefined
        /\ ServerIdle
        /\ UiIdle

(* reconcile({ aRows, bRows, mapping, mode, rules }) returns. *)
Reconcile ==
  /\ recon = Undefined
  /\ recon' = reconcile(aRows, bRows, mapping, mode, rules)
  /\ UNCHANGED <<aRows, bRows, mapping, mode, rules>>
  /\ UNCHANGED <<serverVars, uiVars>>

Next == Reconcile

Spec == Init /\ [][Next]_vars

-----------------------------------------------------------------------------
(* Vocabulary of the properties *)

Returned == recon # Undefined

ARowNumbers == 1..Len(aRows)
BRowNumbers == 1..Len(bRows)
ResultNumbers == 1..Len(recon.results)

Statuses == {"MATCHED", "MISMATCH", "MISSING_IN_A", "MISSING_IN_B"}

(* The results whose a reference is the A row i, and whose b reference is *)
(* the B row j.                                                           *)
ResultsOfA(i) == {k \in ResultNumbers : recon.results[k].a = i}
ResultsOfB(j) == {k \in ResultNumbers : recon.results[k].b = j}

(* The results that join an A row to the B row j. *)
JoinsOfB(j) == {k \in ResultsOfB(j) : recon.results[k].a # NoRow}

RowIdsUnique(rows) ==
  \A i, j \in 1..Len(rows) : i # j => rows[i]["__rowId"] # rows[j]["__rowId"]

IdFieldOfRequest == pickField(mapping, "id", Fallback.id)

(* The join keys of the request's mode. *)
AKey(i) == aKeyOf(aRows[i], mode, IdFieldOfRequest, rules)
BKey(j) == bKeyOf(bRows[j], mode, IdFieldOfRequest, rules)

(* The B row indexed under a key: the first one in B's row order (in auto *)
(* mode a row with an empty id is not indexed); NoRow when there is none. *)
IndexedUnder(key) ==
  LET rows == {j \in BRowNumbers : BKey(j) = key /\ (mode = "auto" => key # <<>>)}
  IN IF rows = {} THEN NoRow ELSE CHOOSE j \in rows : \A h \in rows : j <= h

(* The B row the A row i is joined to. *)
JoinOfA(i) == IF AKey(i) = <<>> THEN NoRow ELSE IndexedUnder(AKey(i))

-----------------------------------------------------------------------------
(* C1: no row is dropped.  When the rowIds are unique within each dataset, *)
(* after reconcile returns every row of A is the a reference of at least   *)
(* one result and every row of B is the b reference of at least one.       *)
C1_NoRowDropped ==
  (Returned /\ RowIdsUnique(aRows) /\ RowIdsUnique(bRows)) =>
    /\ \A i \in ARowNumbers : ResultsOfA(i) # {}
    /\ \A j \in BRowNumbers : ResultsOfB(j) # {}

(* C1's case: rowIds taken from a column of the file and still unique, one *)
(* B row joined and another B row swept as MISSING_IN_A.                   *)
C1_Witness ==
  /\ Returned /\ RowIdsUnique(aRows) /\ RowIdsUnique(bRows)
  /\ Len(bRows) >= 2
  /\ bRows[1]["__rowId"].t = "string"
  /\ \E j \in BRowNumbers : JoinsOfB(j) # {}
  /\ \E k \in ResultNumbers : recon.results[k].status = "MISSING_IN_A"

(* C2: no row appears twice.  Every row of A is the a reference of at most *)
(* one result and every row of B is the b reference of at most one result, *)
(* also when several A rows produce the same join key.                     *)
C2_NoRowTwice ==
  Returned =>
    /\ \A i \in ARowNumbers : Cardinality(ResultsOfA(i)) <= 1
    /\ \A j \in BRowNumbers : Cardinality(ResultsOfB(j)) <= 1

(* C3: summary.total = results.length = the sum of the four counters, and  *)
(* that number is len(A) plus the number of B rows no A row was joined to. *)
C3_TotalCount ==
  Returned =>
    /\ recon.summary.total = Len(recon.results)
    /\ recon.summary.total =
         recon.summary.MATCHED + recon.summary.MISMATCH
           + recon.summary.MISSING_IN_A + recon.summary.MISSING_IN_B
    /\ recon.summary.total =
         Len(aRows) + Cardinality({j \in BRowNumbers : JoinsOfB(j) = {}})

(* C4: every result has a status that is one of MATCHED, MISMATCH,         *)
(* MISSING_IN_A, MISSING_IN_B.                                             *)
C4_StatusEnumeration ==
  Returned => \A k \in ResultNumbers : recon.results[k].status \in Statuses

(* C5: for each of the four statuses S, summary[S] is the number of        *)
(* results whose status is S.                                              *)
C5_SummaryAgrees ==
  Returned =>
    \A S \in Statuses :
      recon.summary[S] = Cardinality({k \in ResultNumbers : recon.results[k].status = S})

(* C6: the result of an A row is MISSING_IN_B (reason MISSING_IN_B, no b   *)
(* reference) if and only if its join key is empty or no B row is indexed  *)
(* under it; otherwise the row is joined to the indexed B row and its      *)
(* status is MATCHED or MISMATCH.                                          *)
C6_ProbeA ==
  Returned =>
    \A i \in ARowNumbers :
      /\ ResultsOfA(i) # {}
      /\ \A k \in ResultsOfA(i) :
           LET r == recon.results[k]
           IN IF JoinOfA(i) = NoRow
              THEN r.status = "MISSING_IN_B" /\ r.reason = <<"MISSING_IN_B">> /\ r.b = NoRow
              ELSE r.b = JoinOfA(i) /\ r.status \in {"MATCHED", "MISMATCH"}

(* The key a MISSING_IN_A result reports for the B row j: its trimmed id   *)
(* in auto mode, none in custom mode.                                      *)
SweepKey(j) ==
  IF mode = "auto" THEN Str(Trim(StringOrEmpty(Get(bRows[j], IdFieldOfRequest.b)))) ELSE Null

(* C7: a B row gets a MISSING_IN_A result (reason MISSING_IN_A, no a       *)
(* reference, the key of its mode) if and only if no A row was joined to   *)
(* it.                                                                     *)
C7_SweepB ==
  Returned =>
    \A j \in BRowNumbers :
      /\ (JoinsOfB(j) = {}) <=>
           (\E k \in ResultsOfB(j) : recon.results[k].status = "MISSING_IN_A")
      /\ \A k \in ResultsOfB(j) :
           recon.results[k].status = "MISSING_IN_A" =>
             /\ recon.results[k].reason = <<"MISSING_IN_A">>
             /\ recon.results[k].a = NoRow
             /\ recon.results[k].key = SweepKey(j)

(* C8: first-seen wins among B rows that share a join key.  A later B row  *)
(* of the key is never joined to an A row and ends up in a MISSING_IN_A    *)
(* result.                                                                 *)
C8_FirstSeenWins ==
  Returned =>
    \A first, later \in BRowNumbers :
      (first < later /\ BKey(first) = BKey(later)) =>
        /\ JoinsOfB(later) = {}
        /\ \E k \in ResultsOfB(later) : recon.results[k].status = "MISSING_IN_A"

AmountFieldOfRequest == pickField(mapping, "amount", Fallback.amount)
DateFieldOfRequest == pickField(mapping, "date", Fallback.date)

(* The mapped amount and date cells of the A row i and of the B row j. *)
AmountOfA(i) == Get(aRows[i], AmountFieldOfRequest.a)
AmountOfB(j) == Get(bRows[j], AmountFieldOfRequest.b)
DateOfA(i) == Get(aRows[i], DateFieldOfRequest.a)
DateOfB(j) == Get(bRows[j], DateFieldOfRequest.b)

(* The tolerances of the request are numbers (rules that are absent, or a *)
(* tolerance that is absent, count as 0), and they are not negative.      *)
NumericTolerances ==
  rules.present =>
    /\ rules.amountTolerance.t \in {"number", "undefined", "null"}
    /\ rules.dateToleranceDays.t \in {"number", "undefined", "null"}

ToleranceValue(name) ==
  IF rules.present /\ rules[name].t = "number" THEN rules[name].n ELSE 0

NonNegativeTolerances ==
  /\ NumericTolerances
  /\ ToleranceValue("amountTolerance") >= 0
  /\ ToleranceValue("dateToleranceDays") >= 0

(* Both amounts parse as numbers that differ by at most amountTolerance and *)
(* both dates parse as dates that lie at most dateToleranceDays apart.      *)
WithinTolerance(i, j) ==
  LET an == toNumber(AmountOfA(i))
      bn == toNumber(AmountOfB(j))
      ad == normalizeDate(DateOfA(i))
      bd == normalizeDate(DateOfB(j))
  IN /\ an # Null /\ bn # Null
     /\ Abs(an.n - bn.n) <= ToleranceValue("amountTolerance")
     /\ ad # Null /\ bd # Null
     /\ Abs(DateParse(ad.s).n - DateParse(bd.s).n) <= ToleranceValue("dateToleranceDays")

SameAmountAndDate(i, j) ==
  AmountOfA(i) = AmountOfB(j) /\ DateOfA(i) = DateOfB(j)

-----------------------------------------------------------------------------
(* Both tolerances of the request are 0 (absent rules count as 0). *)
ZeroTolerances ==
  /\ NumericTolerances
  /\ ToleranceValue("amountTolerance") = 0
  /\ ToleranceValue("dateToleranceDays") = 0

(* The mapped amounts of the A row i and the B row j are numbers that differ. *)
AmountsDiffer(i, j) ==
  /\ toNumber(AmountOfA(i)) # Null
  /\ toNumber(AmountOfB(j)) # Null
  /\ toNumber(AmountOfA(i)) # toNumber(AmountOfB(j))

MentionsAmount(reason) == \E n \in 1..Len(reason) : reason[n] = "Amount differs ("
MentionsDate(reason) == \E n \in 1..Len(reason) : reason[n] = "Date differs ("

(* C11: in auto mode with tolerance 0, under every mapping, an A row joined *)
(* to the B row of the same id whose amount differs has a result of status  *)
(* MISMATCH whose reason mentions "Amount differs".                         *)
C11_AmountDiffersReported ==
  (Returned /\ mode = "auto" /\ ZeroTolerances) =>
    \A i \in ARowNumbers :
      (JoinOfA(i) # NoRow /\ AmountsDiffer(i, JoinOfA(i))) =>
        /\ ResultsOfA(i) # {}
        /\ \A k \in ResultsOfA(i) :
             /\ recon.results[k].status = "MISMATCH"
             /\ MentionsAmount(recon.results[k].reason)

-----------------------------------------------------------------------------
(* The request is in custom mode and its composite key is the mapped amount *)
(* column, typed number, and the mapped date column, typed date.            *)
KeyIsAmountAndDate ==
  /\ mode = "custom" /\ rules.present
  /\ rules.compositeKeysA = <<AmountFieldOfRequest.a, DateFieldOfRequest.a>>
  /\ rules.compositeKeysB = <<AmountFieldOfRequest.b, DateFieldOfRequest.b>>
  /\ FieldType(rules, AmountFieldOfRequest.a) = "number"
  /\ FieldType(rules, AmountFieldOfRequest.b) = "number"
  /\ FieldType(rules, DateFieldOfRequest.a) = "date"
  /\ FieldType(rules, DateFieldOfRequest.b) = "date"

(* The amounts of the A row i and the B row j parse and differ by at most  *)
(* amountTolerance, and their dates parse to the same day.                 *)
AmountNearAndDateEqual(i, j) ==
  /\ toNumber(AmountOfA(i)) # Null
  /\ toNumber(AmountOfB(j)) # Null
  /\ Abs(toNumber(AmountOfA(i)).n - toNumber(AmountOfB(j)).n)
       <= ToleranceValue("amountTolerance")
  /\ normalizeDate(DateOfA(i)) # Null
  /\ normalizeDate(DateOfA(i)) = normalizeDate(DateOfB(j))

(* C12: in custom mode with the key built from the amount and the date, an *)
(* A row and a B row whose amounts differ by at most amountTolerance and   *)
(* whose dates are equal are joined: the A row is not reported             *)
(* MISSING_IN_B, and the B row, when it is the first B row of its key, is  *)
(* not reported MISSING_IN_A.                                              *)
C12_JoinedWithinTolerance ==
  (Returned /\ KeyIsAmountAndDate /\ NonNegativeTolerances) =>
    \A i \in ARowNumbers, j \in BRowNumbers :
      AmountNearAndDateEqual(i, j) =>
        /\ \A k \in ResultsOfA(i) : recon.results[k].status # "MISSING_IN_B"
        /\ IndexedUnder(BKey(j)) = j =>
             \A k \in ResultsOfB(j) : recon.results[k].status # "MISSING_IN_A"

-----------------------------------------------------------------------------
(* The verdicts of the two comparators on the mapped columns of the A row  *)
(* i and the B row j, under the tolerances of the request.                 *)
AmountOk(i, j) ==
  compareAmounts(AmountOfA(i), AmountOfB(j), Tolerance(rules, "amountTolerance")).ok
DateOk(i, j) ==
  compareDates(DateOfA(i), DateOfB(j), Tolerance(rules, "dateToleranceDays")).ok

(* The results that join an A row to a B row and are not MATCHED. *)
MismatchResults ==
  {k \in ResultNumbers :
     /\ recon.results[k].a # NoRow /\ recon.results[k].b # NoRow
     /\ recon.results[k].status # "MATCHED"}

(* C13: the reason of every mismatch result on the pair (a, b) mentions    *)
(* the amount if and only if the amount comparator on the mapped amount    *)
(* columns reported not ok, and mentions the date if and only if the date  *)
(* comparator on the mapped date columns reported not ok.                  *)
C13_ReasonNamesFailedDimensions ==
  Returned =>
    \A k \in MismatchResults :
      LET r == recon.results[k]
      IN /\ MentionsAmount(r.reason) <=> ~AmountOk(r.a, r.b)
         /\ MentionsDate(r.reason) <=> ~DateOk(r.a, r.b)

-----------------------------------------------------------------------------
(* C14: rules are ignored in auto mode.  Whatever the rules argument of an *)
(* auto request is, reconcile returns the results and the summary it       *)
(* returns for the same datasets and mapping without rules.                *)
C14_RulesIgnoredInAuto ==
  (Returned /\ mode = "auto") =>
    recon = reconcile(aRows, bRows, mapping, "auto", NoRules)

(* A tolerance that is a number; 0 for one that is missing or not a number. *)
NumberOrZero(v) == IF v.t = "number" THEN v ELSE Num(0)

(* The rules with every missing or unparseable tolerance replaced by 0. *)
WithZeroForMalformed(r) ==
  IF r.present
  THEN [r EXCEPT !.amountTolerance = NumberOrZero(ToNumberJS(OrZero(@))),
                 !.dateToleranceDays = NumberOrZero(ToNumberJS(OrZero(@)))]
  ELSE r

(* C15: in custom mode a tolerance that is missing or does not parse as a  *)
(* number is treated as 0: reconcile returns what it returns when that     *)
(* tolerance is 0.                                                         *)
C15_MalformedToleranceIsZero ==
  (Returned /\ mode = "custom") =>
    recon = reconcile(aRows, bRows, mapping, "custom", WithZeroForMalformed(rules))

-----------------------------------------------------------------------------
(* A mapped amount or date of the A row i or of the B row j is absent or   *)
(* does not parse.                                                         *)
HasDataError(i, j) ==
  \/ toNumber(AmountOfA(i)) = Null
  \/ toNumber(AmountOfB(j)) = Null
  \/ normalizeDate(DateOfA(i)) = Null
  \/ normalizeDate(DateOfB(j)) = Null

(* C16: per-row data errors are not fatal.  For a joined pair in which an  *)
(* amount or a date is absent or unparseable, reconcile returns, exactly   *)
(* one result references the A row and it references the B row too, that   *)
(* result is not MATCHED, and summary.MISMATCH counts the joined results   *)
(* that are not MATCHED.                                                   *)
C16_DataErrorsNotFatal ==
  Returned =>
    /\ recon.summary.MISMATCH = Cardinality(MismatchResults)
    /\ \A i \in ARowNumbers :
         (JoinOfA(i) # NoRow /\ HasDataError(i, JoinOfA(i))) =>
           /\ Cardinality(ResultsOfA(i)) = 1
           /\ \A k \in ResultsOfA(i) :
                /\ recon.results[k].b = JoinOfA(i)
                /\ recon.results[k].status # "MATCHED"
                /\ k \in MismatchResults

(* C16's case: one joined pair with an unparseable amount on both sides,   *)
(* another whose A row has an amount and no date, both counted under       *)
(* summary.MISMATCH.                                                       *)
C16_Witness ==
  /\ Returned
  /\ recon.summary.MISMATCH >= 2
  /\ \E i \in ARowNumbers :
       /\ JoinOfA(i) # NoRow
       /\ toNumber(AmountOfA(i)) = Null /\ toNumber(AmountOfB(JoinOfA(i))) = Null
       /\ \E k \in ResultsOfA(i) : k \in MismatchResults
  /\ \E i \in ARowNumbers :
       /\ JoinOfA(i) # NoRow
       /\ toNumber(AmountOfA(i)) # Null
       /\ normalizeDate(DateOfA(i)) = Null
       /\ \E k \in ResultsOfA(i) : k \in MismatchResults

-----------------------------------------------------------------------------
(* The server under upload, reconcile and export requests *)

ServerInit ==
  /\ aRows = <<>> /\ bRows = <<>> /\ mapping = NoMapping
  /\ mode = "auto" /\ rules = NoRules /\ recon = Undefined
  /\ ServerIdle
  /\ UiIdle

(* POST /api/sessions *)
PostSessions ==
  \E files \in Uploads :
    /\ request' = [route |-> "POST /api/sessions", files |-> files]
    /\ \/ /\ ~BothUploaded(files)
          /\ response' = Response(400, ErrorBody("Please upload both fileA and fileB."))
          /\ UNCHANGED <<sessions, uploaded>>
       \/ /\ BothUploaded(files) /\ ParseThrows(files)
          /\ response' = Response(400, ErrorBody("CSV parse error"))
          /\ UNCHANGED <<sessions, uploaded>>
       \/ /\ BothUploaded(files) /\ ~ParseThrows(files)
          /\ \E sessionId \in NanoIds \ DOMAIN sessions :
               /\ sessions' = SetSession(sessions, sessionId,
                                NewSession(
                                  parseCsvBuffer(files.fileA.fields, files.fileA.data),
                                  parseCsvBuffer(files.fileB.fields, files.fileB.data)))
               /\ response' = Response(200, [sessionId |-> sessionId,
                                             meta |-> sessions'[sessionId].meta])
               /\ uploaded' = SetSession(uploaded, sessionId, files)
    /\ UNCHANGED answered
    /\ UNCHANGED <<engineVars, uiVars>>

(* The history of the answers after a reconcile request. *)
Differs200(last, result) == last # Undefined /\ last # result

Recorded(history, sessionId, result) ==
  [last |-> [history.last EXCEPT ![sessionId] = result],
   replaced |-> history.replaced \/ Differs200(history.last[sessionId], result)]

Answered(history, body, answer) ==
  IF answer.status = 200
  THEN Recorded(history, body.sessionId.s,
                [summary |-> answer.body.summary, results |-> answer.body.results])
  ELSE history

Respond(body, handled) ==
  /\ sessions' = handled.sessions
  /\ response' = handled.response
  /\ answered' = Answered(answered, body, handled.response)

(* POST /api/reconcile *)
PostReconcile ==
  \E body \in Bodies :
    /\ request' = [route |-> "POST /api/reconcile", body |-> body]
    /\ Respond(body, HandleReconcile(sessions, body))
    /\ UNCHANGED uploaded
    /\ UNCHANGED <<engineVars, uiVars>>

(* GET /api/export/:sessionId?filter= *)
GetExport ==
  \E sessionId \in NanoIds \cup {"unknown-id-0"}, query \in Filters :
    /\ request' = [route |-> "GET /api/export", sessionId |-> sessionId, filter |-> query]
    /\ response' = HandleExport(sessions, sessionId, query)
    /\ UNCHANGED <<sessions, uploaded, answered>>
    /\ UNCHANGED <<engineVars, uiVars>>

ServerNext == PostSessions \/ PostReconcile \/ GetExport

ServerSpec == ServerInit /\ [][ServerNext]_vars

-----------------------------------------------------------------------------
(* Vocabulary of the server properties *)

Handled == request # Undefined

ReconcileHandled == Handled /\ request.route = "POST /api/reconcile"
ExportHandled == Handled /\ request.route = "GET /api/export"

(* The summary and the results a reconcile response carries. *)
ResultOf(answer) == [summary |-> answer.body.summary, results |-> answer.body.results]

(* The session id a request carries; "" when it carries none. *)
Carried(req) ==
  IF req.route = "POST /api/reconcile"
  THEN IF req.body.sessionId.t = "string" THEN req.body.sessionId.s ELSE ""
  ELSE IF req.route = "GET /api/export" THEN req.sessionId
  ELSE ""

(* The store without every session but the one of the id. *)
Only(store, sessionId) == [id \in DOMAIN store \cap {sessionId} |-> store[id]]

(* C17: a session's datasets are read-only.  After any sequence of upload, *)
(* reconcile and export requests, Dataset A and Dataset B of every session *)
(* (rows, order, values, rowIds) are what was parsed from the files it was *)
(* created from.                                                           *)
C17_DatasetsReadOnly ==
  \A id \in DOMAIN sessions :
    /\ sessions[id].a = parseCsvBuffer(uploaded[id].fileA.fields, uploaded[id].fileA.data)
    /\ sessions[id].b = parseCsvBuffer(uploaded[id].fileB.fields, uploaded[id].fileB.data)

(* C17's case: an export answered for a session with rows, after two       *)
(* reconcile runs with different results on some session.                  *)
C17_Witness ==
  /\ ExportHandled /\ response.status = 200
  /\ answered.replaced
  /\ Len(sessions[request.sessionId].a.rows) > 0
  /\ Len(sessions[request.sessionId].lastRecon.results) > 0

(* C18: the stored last result of every session is the output of the most  *)
(* recent reconcile request on it that succeeded (none stored when none    *)
(* succeeded), and the output of a reconcile request is reconcile of the   *)
(* session's datasets and the request's mapping, mode and rules.           *)
C18_LastResultIsLatest ==
  /\ \A id \in DOMAIN sessions : sessions[id].lastRecon = answered.last[id]
  /\ \A id \in NanoIds \ DOMAIN sessions : answered.last[id] = Undefined
  /\ (ReconcileHandled /\ response.status = 200) =>
       ResultOf(response) =
         reconcile(sessions[request.body.sessionId.s].a.rows,
                   sessions[request.body.sessionId.s].b.rows,
                   request.body.mapping, request.body.mode.s, request.body.rules)

(* C18's case: a reconcile request answered with a result that differs     *)
(* from the one stored before for the same session.                        *)
C18_Witness ==
  /\ ReconcileHandled /\ response.status = 200
  /\ answered.replaced
  /\ sessions[request.body.sessionId.s].lastRecon = ResultOf(response)
  /\ request.body.mode.s = "custom"

(* C19: session isolation.  A request that carries the session id s leaves *)
(* every other session as it is, its response is the one the handler gives *)
(* on a store that holds no other session, and creating a session leaves   *)
(* every existing session as it is.                                        *)
C19_SessionIsolation ==
  [][ /\ \A id \in DOMAIN sessions :
           id # Carried(request') =>
             id \in DOMAIN sessions' /\ sessions'[id] = sessions[id]
      /\ request'.route = "POST /api/reconcile" =>
           response' = HandleReconcile(Only(sessions, Carried(request')),
                                       request'.body).response
      /\ request'.route = "GET /api/export" =>
           response' = HandleExport(Only(sessions, Carried(request')),
                                    request'.sessionId, request'.filter) ]_vars

(* C19's case: two sessions with different datasets and different stored   *)
(* results, the last request a reconcile on one of them.                   *)
C19_Witness ==
  /\ ReconcileHandled /\ response.status = 200
  /\ \E id \in DOMAIN sessions :
       /\ id # request.body.sessionId.s
       /\ sessions[id].lastRecon # Undefined
       /\ sessions[id].lastRecon # sessions[request.body.sessionId.s].lastRecon
       /\ sessions[id].b # sessions[request.body.sessionId.s].b

(* C20: a rejected reconcile request changes nothing.  A malformed body is *)
(* answered 400, an unknown session id 404, an error raised by the engine  *)
(* 400, and in the three cases the store, with the stored last result of   *)
(* every session, is what it was.                                          *)
C20_RejectedChangesNothing ==
  [][ request'.route = "POST /api/reconcile" =>
        /\ ~ValidBody(request'.body) =>
             response'.status = 400 /\ sessions' = sessions
        /\ (ValidBody(request'.body) /\ Carried(request') \notin DOMAIN sessions) =>
             response'.status = 404 /\ sessions' = sessions
        /\ ( /\ ValidBody(request'.body)
             /\ Carried(request') \in DOMAIN sessions
             /\ reconcileThrows(sessions[Carried(request')].a.rows,
                                sessions[Carried(request')].b.rows,
                                request'.body.mode.s, request'.body.rules) ) =>
             response'.status = 400 /\ sessions' = sessions
        /\ response'.status # 200 => sessions' = sessions ]_vars

(* C20's case: the engine raised an error on a session that holds a stored *)
(* result, and the result is still stored.                                 *)
C20_Witness ==
  /\ ReconcileHandled /\ response.status = 400
  /\ ValidBody(request.body)
  /\ request.body.sessionId.s \in DOMAIN sessions
  /\ sessions[request.body.sessionId.s].lastRecon # Undefined
  /\ sessions[request.body.sessionId.s].lastRecon = answered.last[request.body.sessionId.s]

-----------------------------------------------------------------------------
(* The filter value of an export request: ALL when the query has none. *)
FilterValue(req) == IF req.filter = Undefined THEN "ALL" ELSE req.filter.s

(* The records of a result that an export under the filter value serves,   *)
(* by their places in the result.                                          *)
Served(result, filter) ==
  {k \in 1..Len(result.results) : filter = "ALL" \/ result.results[k].status = filter}

(* The n-th of the served places, in result order. *)
NthServed(places, n) ==
  CHOOSE k \in places : Cardinality({h \in places : h < k}) = n - 1

(* The text of a cell of the row at place n; empty for no row. *)
CellText(rows, n, column) ==
  IF n = NoRow THEN <<>> ELSE StringOrEmpty(Get(rows[n], column))

(* The exported line is the record r of the session s. *)
IsExportOf(line, s, r) ==
  /\ line.status = <<r.status>>
  /\ line.reason = r.reason
  /\ line.key = StringOrEmpty(r.key)
  /\ line.a_rowId = CellText(s.a.rows, r.a, "__rowId")
  /\ line.b_rowId = CellText(s.b.rows, r.b, "__rowId")
  /\ line.a_transaction_id = CellText(s.a.rows, r.a, "transaction_id")
  /\ line.b_transaction_id = CellText(s.b.rows, r.b, "transaction_id")
  /\ line.a_date = CellText(s.a.rows, r.a, "date")
  /\ line.b_date = CellText(s.b.rows, r.b, "date")
  /\ line.a_amount = CellText(s.a.rows, r.a, "amount")
  /\ line.b_amount = CellText(s.b.rows, r.b, "amount")

(* C21: export serves only a computed result.  An export for an unknown    *)
(* session id, or for a session on which no reconcile has succeeded, is    *)
(* answered 404 without a CSV; any other export is answered with exactly   *)
(* the records of the session's most recent reconcile result whose status  *)
(* equals the filter value (all of them for ALL or no filter), in result   *)
(* order.                                                                  *)
C21_ExportServesLastResult ==
  ExportHandled =>
    IF request.sessionId \notin DOMAIN sessions
         \/ answered.last[request.sessionId] = Undefined
    THEN response.status = 404 /\ "csv" \notin DOMAIN response.body
    ELSE /\ response.status = 200
         /\ Len(response.body.csv.data)
              = Cardinality(Served(answered.last[request.sessionId], FilterValue(request)))
         /\ \A n \in 1..Len(response.body.csv.data) :
              IsExportOf(response.body.csv.data[n], sessions[request.sessionId],
                answered.last[request.sessionId].results[
                  NthServed(Served(answered.last[request.sessionId], FilterValue(request)),
                            n)])

(* C21's case: an export under a status filter, answered with the one      *)
(* record of that status, for a session whose result was replaced before.  *)
C21_Witness ==
  /\ ExportHandled /\ response.status = 200
  /\ request.filter # Undefined
  /\ Len(response.body.csv.data) = 1
  /\ answered.replaced

-----------------------------------------------------------------------------
(* C22: the parsed rows of either dataset carry the row ids 1, 2, ..., n   *)
(* in file order, whatever the columns of the file are named and whatever  *)
(* their cells hold.                                                       *)
C22_RowIdsArePositions ==
  /\ \A i \in 1..Len(aRows) : Get(aRows[i], "__rowId") = Num(i)
  /\ \A j \in 1..Len(bRows) : Get(bRows[j], "__rowId") = Num(j)

-----------------------------------------------------------------------------
(* The field mapper under the mappings a request can carry.                *)
(* POST /api/reconcile hands req.body.mapping to reconcile as it is, so    *)
(* the mapping is any JSON value or undefined.                             *)

MaxFieldRows == 1

Ref == <<"r", "e", "f">>

Mappings ==
  {Undefined, Null, Str(Ref), Num(5), NoMapping,
   [id |-> Null],
   [id |-> Str(Ref)],
   [id |-> [a |-> "", b |-> ""]],
   [id |-> [a |-> "ref", b |-> ""]],
   [id |-> [a |-> "ref", b |-> "ref"]],
   [amount |-> Str(<<"a", "m", "t">>)],
   [amount |-> [a |-> "", b |-> "amt"]],
   [amount |-> [a |-> "amt", b |-> "amt"]],
   [date |-> [a |-> "posted", b |-> ""]],
   [description |-> Null],
   [id |-> [a |-> "ref", b |-> "ref"], amount |-> [a |-> "amt", b |-> "amt"],
    date |-> [a |-> "posted", b |-> "posted"],
    description |-> [a |-> "memo", b |-> "memo"]]}

FieldHeader == <<"transaction_id", "ref", "amount", "amt", "date", "posted">>

(* The data rows of a file that has a second id, amount and date column. *)
FieldCsvRows ==
  {[transaction_id |-> Str(<<"7">>), ref |-> Str(<<"8">>),
    amount |-> Str(<<"1", "0", "0">>), amt |-> Str(<<"1", "0", "4">>),
    date |-> Str(Day5), posted |-> Str(Day6)],
   [transaction_id |-> Str(<<"8">>), ref |-> Str(<<"7">>),
    amount |-> Str(<<"1", "0", "4">>), amt |-> Str(<<"1", "0", "0">>),
    date |-> Str(Day6), posted |-> Str(Day5)],
   [transaction_id |-> Str(<<"7">>), ref |-> Str(<<"7">>),
    amount |-> Str(<<"1", "0", "0">>), amt |-> Str(<<"1", "0", "0">>),
    date |-> Str(Day5), posted |-> Str(Day5)]}

FieldModeRules ==
  {[mode |-> "auto", rules |-> NoRules],
   [mode |-> "custom", rules |-> AmountDateRules(Num(0), Num(0))]}

FieldInit ==
  \E m \in Mappings, mr \in FieldModeRules, na \in 0..MaxFieldRows, nb \in 0..MaxFieldRows :
    \E dataA \in [1..na -> FieldCsvRows], dataB \in [1..nb -> FieldCsvRows] :
      /\ aRows = parseCsvBuffer(FieldHeader, dataA).rows
      /\ bRows = parseCsvBuffer(FieldHeader, dataB).rows
      /\ mapping = m
      /\ mode = mr.mode
      /\ rules = mr.rules
      /\ recon = Undefined
      /\ ServerIdle
      /\ UiIdle

FieldSpec == FieldInit /\ [][Reconcile]_vars

(* The request gives a name for the side of the field. *)
NameGiven(key, side) ==
  /\ ~IsPrimitive(mapping)
  /\ key \in DOMAIN mapping
  /\ ~IsPrimitive(mapping[key])
  /\ mapping[key][side] # ""

NameFor(key, side) ==
  IF NameGiven(key, side) THEN mapping[key][side] ELSE Fallback[key][side]

FieldFor(key) == [a |-> NameFor(key, "a"), b |-> NameFor(key, "b")]

(* C23: the field mapper resolves each of id, amount, date and description *)
(* to the name the request gives for that side, and to the default         *)
(* (transaction_id, amount, date, description) where it gives none; an     *)
(* absent or malformed mapping (null, not an object, an entry that is not  *)
(* an object, empty names) resolves to the defaults, and reconcile works   *)
(* on exactly the columns so resolved.                                     *)
C23_FieldsResolved ==
  /\ \A key \in DOMAIN Fallback : pickField(mapping, key, Fallback[key]) = FieldFor(key)
  /\ Returned =>
       recon = ReconcileFields(aRows, bRows, mode, rules,
                               FieldFor("id"), FieldFor("amount"), FieldFor("date"))

(* C23's case: the mapping names the id column of file A only, and the     *)
(* rows joined are joined on that column of A and the default column of B. *)
C23_Witness ==
  /\ Returned
  /\ mapping = [id |-> [a |-> "ref", b |-> ""]]
  /\ mode = "auto"
  /\ Len(aRows) = 1 /\ Len(bRows) = 1
  /\ aRows[1].ref # aRows[1].transaction_id
  /\ aRows[1].ref = bRows[1].transaction_id
  /\ Len(recon.results) = 1

-----------------------------------------------------------------------------
(* The key builder under the composite keys a custom request can carry.    *)

KeyHeader == <<"ref", "memo", "amount", "date">>

(* The data rows of a file with two text columns, an amount and a date. *)
KeyCsvRows ==
  {[ref |-> Str(<<"a", "|", "|", "b">>), memo |-> Str(<<>>),
    amount |-> Str(<<"1", "0", "0">>), date |-> Str(Day5)],
   [ref |-> Str(<<"a">>), memo |-> Str(<<"b">>),
    amount |-> Str(<<"1", ",", "0", "0">>), date |-> Str(Day5)],
   [ref |-> Str(<<" ", "A">>), memo |-> Str(<<"B">>),
    amount |-> Str(<<"1", "0", "4">>), date |-> Str(Day6)]}

(* Rules with the key columns keysA of file A and keysB of file B. *)
KeyRules(keysA, keysB) ==
  [present |-> TRUE, amountTolerance |-> Num(0), dateToleranceDays |-> Num(0),
   compositeKeysA |-> keysA, compositeKeysB |-> keysB,
   fieldTypes |-> [amount |-> "number", date |-> "date"]]

CompositeKeys ==
  {KeyRules(<<"ref">>, <<"ref">>),
   KeyRules(<<"ref", "memo">>, <<"ref", "memo">>),
   KeyRules(<<"ref">>, <<"ref", "memo">>),
   KeyRules(<<"ref", "memo">>, <<"ref">>),
   KeyRules(<<"ref", "amount">>, <<"ref", "amount">>),
   KeyRules(<<"amount", "date">>, <<"amount", "date">>)}

KeyInit ==
  \E r \in CompositeKeys, na \in 0..MaxRows :
    \E nb \in 0..(MaxRows - na) :
      \E dataA \in [1..na -> KeyCsvRows], dataB \in [1..nb -> KeyCsvRows] :
        /\ aRows = parseCsvBuffer(KeyHeader, dataA).rows
        /\ bRows = parseCsvBuffer(KeyHeader, dataB).rows
        /\ mapping = NoMapping
        /\ mode = "custom"
        /\ rules = r
        /\ recon = Undefined
        /\ ServerIdle
        /\ UiIdle

KeySpec == KeyInit /\ [][Reconcile]_vars

(* The normalized value of a cell of a key column of the declared type:    *)
(* the number, the ISO date, or the trimmed lower-case text.               *)
NormalizedValue(type, v) ==
  IF type = "number" THEN toNumber(v)
  ELSE IF type = "date" THEN normalizeDate(v)
  ELSE Str(ToLowerCase(stringify(v)))

NormalizedOfA(i, n) ==
  NormalizedValue(FieldType(rules, rules.compositeKeysA[n]),
                  Get(aRows[i], rules.compositeKeysA[n]))

NormalizedOfB(j, n) ==
  NormalizedValue(FieldType(rules, rules.compositeKeysB[n]),
                  Get(bRows[j], rules.compositeKeysB[n]))

(* The A row i and the B row j have the same normalized key values,        *)
(* element by element.                                                     *)
SameNormalized(i, j) ==
  /\ Len(rules.compositeKeysA) = Len(rules.compositeKeysB)
  /\ \A n \in 1..Len(rules.compositeKeysA) : NormalizedOfA(i, n) = NormalizedOfB(j, n)

(* Some key cell of the two rows is written differently. *)
RawDiffers(i, j) ==
  \E n \in 1..Len(rules.compositeKeysA) :
    Get(aRows[i], rules.compositeKeysA[n]) # Get(bRows[j], rules.compositeKeysB[n])

(* C24: key construction is deterministic.  Two rows whose normalized key  *)
(* values are equal column by column get identical keys, however their     *)
(* cells are written, and the result of the A row carries that key.        *)
C24_EqualValuesEqualKeys ==
  Returned =>
    \A i \in ARowNumbers, j \in BRowNumbers :
      SameNormalized(i, j) =>
        /\ AKey(i) = BKey(j)
        /\ \A k \in ResultsOfA(i) : recon.results[k].key = Str(BKey(j))

(* C24's case: two rows written differently, with the same normalized key  *)
(* values, joined.                                                         *)
C24_Witness ==
  /\ Returned
  /\ \E i \in ARowNumbers, j \in BRowNumbers :
       /\ SameNormalized(i, j) /\ RawDiffers(i, j)
       /\ Len(rules.compositeKeysA) = 2
       /\ \E k \in ResultsOfA(i) : recon.results[k].b = j

(* C27: keys are injective.  A custom-mode result joins an A row and a B   *)
(* row only when their normalized key value sequences are equal element by *)
(* element; a value containing the separator or key lists of different     *)
(* length do not make two keys collide.                                    *)
C27_JoinedOnlyOnEqualValues ==
  (Returned /\ mode = "custom") =>
    \A k \in ResultNumbers :
      (recon.results[k].a # NoRow /\ recon.results[k].b # NoRow) =>
        SameNormalized(recon.results[k].a, recon.results[k].b)

-----------------------------------------------------------------------------
(* C28: every counted mismatch names a difference.  Every result counted   *)
(* under summary.MISMATCH has a reason that is not empty and names the     *)
(* amount or the date, also when a compared value is absent or cannot be   *)
(* parsed and when the compared columns are mapped ones.                   *)
C28_MismatchNamesDifference ==
  Returned =>
    \A k \in MismatchResults :
      /\ recon.results[k].reason # <<>>
      /\ MentionsAmount(recon.results[k].reason) \/ MentionsDate(recon.results[k].reason)

-----------------------------------------------------------------------------
(* The results start with one record per A row, in A's row order. *)
ARecordsFirst ==
  /\ Len(recon.results) >= Len(aRows)
  /\ \A k \in ARowNumbers : recon.results[k].a = k

(* The records after those of A are the MISSING_IN_A records, in B's row   *)
(* order.                                                                  *)
BRecordsLast ==
  \A k \in ResultNumbers :
    k > Len(aRows) =>
      /\ recon.results[k].status = "MISSING_IN_A"
      /\ recon.results[k].a = NoRow
      /\ \A h \in ResultNumbers :
           (Len(aRows) < h /\ h < k) => recon.results[h].b < recon.results[k].b

(* C29: result order.  The results are exactly one record per A row, in    *)
(* A's row order, each of status MATCHED, MISMATCH or MISSING_IN_B, and    *)
(* after them the MISSING_IN_A records in B's row order; no MISSING_IN_A   *)
(* record precedes a record that refers to an A row.                       *)
C29_ResultOrder ==
  Returned =>
    /\ ARecordsFirst
    /\ \A k \in ARowNumbers :
         recon.results[k].status \in {"MATCHED", "MISMATCH", "MISSING_IN_B"}
    /\ BRecordsLast

-----------------------------------------------------------------------------
(* The text of the search box. *)
Searches == {<<>>, <<" ">>, <<"7">>, <<"X">>}

(* The record of the result a table row or an exported record shows. *)
RecordOf(r) == [status |-> r.status, key |-> r.key, reason |-> r.reason, a |-> r.a, b |-> r.b]

(* The records the review table shows under the chip and the search text. *)
TableRecords(chip, search) ==
  {RecordOf(filteredRows(recon, aRows, bRows, chip, search)[n]) :
     n \in 1..Len(filteredRows(recon, aRows, bRows, chip, search))}

(* The records the Export button of the chip downloads. *)
ExportRecords(chip) ==
  {FilterFrom(recon.results, FilterOf(ExportQuery(chip)), 1)[n] :
     n \in 1..Len(FilterFrom(recon.results, FilterOf(ExportQuery(chip)), 1))}

(* C25: export matches the table.  For every reconcile result and every    *)
(* chip F of ALL, MATCHED, MISMATCH, MISSING_IN_A, MISSING_IN_B, the       *)
(* records the backend exports for filter F are the records the review     *)
(* table shows under chip F with an empty search box.                      *)
C25_ExportMatchesTable ==
  Returned => \A chip \in Chips : ExportRecords(chip) = TableRecords(chip, <<>>)

(* The ids of the grid rows under the chip and the search text. *)
GridIds(chip, search) ==
  [n \in 1..Len(filteredRows(recon, aRows, bRows, chip, search)) |->
     gridRows(filteredRows(recon, aRows, bRows, chip, search))[n].id]

(* C26: the row ids of the review table are unique.  For every reconcile   *)
(* output, every chip and every search text, the ids the grid rows get     *)
(* from key or index are pairwise distinct.                                *)
C26_GridIdsDistinct ==
  Returned =>
    \A chip \in Chips, search \in Searches :
      \A m, n \in 1..Len(GridIds(chip, search)) :
        m # n => GridIds(chip, search)[m] # GridIds(chip, search)[n]

-----------------------------------------------------------------------------
(* The frontend as a state machine.  A handler that awaits a request is    *)
(* two steps: up to the await, and the continuation when the request is    *)
(* settled.  The fields of the app that no modelled handler reads (the     *)
(* tolerance texts, the chip, the search text, the drawer, the toast) are  *)
(* left out.                                                               *)

PickedFile == Str("ledger.csv")

(* res.json({ summary, results }) of the reconcile of a session: the       *)
(* result is identified by the session whose datasets it was computed from *)
ResultFor(sessionId) == [summary |-> sessionId, results |-> sessionId]

(* data.meta of the session *)
MetaFor(sessionId) == [a |-> sessionId, b |-> sessionId]

(* The route that is rendered for the path: the redirects of the routes. *)
Routed(path, app) ==
  IF path = "/auth" THEN (IF app.isAuthed THEN "/upload" ELSE "/auth")
  ELSE IF ~app.isAuthed THEN "/auth"
  ELSE IF path = "/strategy" /\ app.sessionId = Null THEN "/upload"
  ELSE IF path = "/review" /\ app.recon = Null THEN "/upload"
  ELSE path

(* navigate(path) after the state updates of a handler *)
Navigated(app, path) == [app EXCEPT !.path = Routed(path, app)]

(* The state updates of a handler that does not navigate. *)
Rendered(app) == Navigated(app, app.path)

UiInit ==
  /\ aRows = <<>> /\ bRows = <<>> /\ mapping = NoMapping
  /\ mode = "auto" /\ rules = NoRules /\ recon = Undefined
  /\ ServerIdle
  /\ UiIdle

(* AuthCard onSubmit *)
LogIn ==
  /\ ui.path = "/auth"
  /\ ui' = Navigated([ui EXCEPT !.isAuthed = TRUE], "/upload")
  /\ UNCHANGED <<net, engineVars, serverVars>>

(* Log out *)
LogOut ==
  /\ ui.isAuthed
  /\ ui' = Navigated([ui EXCEPT !.isAuthed = FALSE], "/auth")
  /\ UNCHANGED <<net, engineVars, serverVars>>

(* FileCard onPick={setFileA}, onPick={setFileB} *)
PickFile ==
  /\ ui.path = "/upload"
  /\ \/ ui' = Rendered([ui EXCEPT !.fileA = PickedFile])
     \/ ui' = Rendered([ui EXCEPT !.fileB = PickedFile])
  /\ UNCHANGED <<net, engineVars, serverVars>>

(* handleCreateSession up to the await; the button is disabled without     *)
(* both files and while loading.                                           *)
handleCreateSession ==
  /\ ui.path = "/upload"
  /\ ui.fileA # Null /\ ui.fileB # Null /\ ~ui.loading
  /\ Cardinality(net.issued) < MaxSessions
  /\ ui' = Rendered([ui EXCEPT !.loading = TRUE])
  /\ net' = [net EXCEPT !.pending = @ \cup {[call |-> "createSession"]}]
  /\ UNCHANGED <<engineVars, serverVars>>

(* handleCreateSession after the await: the session of the response is     *)
(* stored and the app goes to the strategy; or the request failed.         *)
CreateSessionSettled ==
  /\ [call |-> "createSession"] \in net.pending
  /\ \/ \E id \in NanoIds \ net.issued :
          /\ ui' = Navigated([ui EXCEPT !.sessionId = Str(id), !.meta = MetaFor(Str(id)),
                                        !.loading = FALSE], "/strategy")
          /\ net' = [pending |-> net.pending \ {[call |-> "createSession"]},
                     issued |-> net.issued \cup {id}]
     \/ /\ ui' = Rendered([ui EXCEPT !.loading = FALSE])
        /\ net' = [net EXCEPT !.pending = @ \ {[call |-> "createSession"]}]
  /\ UNCHANGED <<engineVars, serverVars>>

(* StrategyCard onClick *)
SetStrategy ==
  /\ ui.path = "/strategy"
  /\ \E strategy \in {"auto", "custom"} : ui' = Rendered([ui EXCEPT !.strategy = strategy])
  /\ UNCHANGED <<net, engineVars, serverVars>>

(* handleReconcile up to the await: the payload carries the session id and *)
(* the strategy of the click.                                              *)
handleReconcile ==
  /\ ui.path = "/strategy" /\ ~ui.loading
  /\ ui' = Rendered([ui EXCEPT !.loading = TRUE])
  /\ net' = [net EXCEPT !.pending =
               @ \cup {[call |-> "runReconcile", sessionId |-> ui.sessionId,
                        mode |-> ui.strategy]}]
  /\ UNCHANGED <<engineVars, serverVars>>

(* handleReconcile after the await: setRecon(data), navigate("/review");   *)
(* or the request failed.                                                  *)
ReconcileSettled ==
  \E payload \in net.pending :
    /\ payload.call = "runReconcile"
    /\ net' = [net EXCEPT !.pending = @ \ {payload}]
    /\ \/ ui' = Navigated([ui EXCEPT !.recon = ResultFor(payload.sessionId),
                                     !.loading = FALSE], "/review")
       \/ ui' = Rendered([ui EXCEPT !.loading = FALSE])
    /\ UNCHANGED <<engineVars, serverVars>>

(* Back on the strategy page and on the review page *)
Back ==
  /\ \/ ui.path = "/strategy" /\ ui' = Navigated(ui, "/upload")
     \/ ui.path = "/review" /\ ui' = Navigated(ui, "/strategy")
  /\ UNCHANGED <<net, engineVars, serverVars>>

(* Start New Reconciliation *)
resetAll ==
  /\ ui.path = "/review"
  /\ ui' = Navigated([ui EXCEPT !.fileA = Null, !.fileB = Null, !.sessionId = Null,
                                !.meta = Null, !.recon = Null, !.strategy = "auto"],
                     "/upload")
  /\ UNCHANGED <<net, engineVars, serverVars>>

UiNext ==
  \/ LogIn \/ LogOut \/ PickFile
  \/ handleCreateSession \/ CreateSessionSettled
  \/ SetStrategy \/ handleReconcile \/ ReconcileSettled
  \/ Back \/ resetAll

UiSpec == UiInit /\ [][UiNext]_vars

(* C30: the frontend never shows the results of another session.  In every *)
(* reachable state of the app, a result held in the app context was        *)
(* returned by a reconcile request made with the session id the context    *)
(* holds now.                                                              *)
C30_ResultOfCurrentSession ==
  ui.recon # Null => ui.recon = ResultFor(ui.sessionId)

====
